---- MODULE Spec2Model ----
(***************************************************************************)
(* Model of the two scripts of the repository:                             *)
(*   src/data/tree.py        the directory-tree reporter and its entry     *)
(*                           point (specification Spec)                    *)
(*   src/update_imports.py   the import rewriter (specification            *)
(*                           SpecImports)                                  *)
(* Paths and text are sequences of string tokens: a path is its components *)
(* joined by Sep tokens, a rendered line is the sequence of its glyphs and *)
(* names, file contents are sequences of characters.                       *)
(***************************************************************************)
EXTENDS Integers, Sequences, FiniteSets, TLC

VARIABLES
    start_path,    \* the path the walk starts from
    rootKind,      \* what the start path is: "missing", "file", "dir", "noperm"
    fs,            \* the filesystem below the start path: components -> kind
    pc,            \* position of the running script
    stack,         \* os.walk's stack of directories still to list (top = last)
    cur,           \* the triple (root, dirs, files) os.walk yielded last
    fidx,          \* index into cur.files of the inner for loop
    output_lines,  \* tree.py: output_lines
    found_files,   \* tree.py: found_files
    visited,       \* history: the path each tree line was rendered for
    output_text,   \* tree.py: the pair's first component, once returned
    outfile,       \* tree.py: directory_tree_output.txt
    fopen,         \* tree.py: the output file handle is open
    console,       \* what the script printed, in order
    content,       \* update_imports.py: contents of the .js files
    log,           \* history: one entry per call of update_imports
    run            \* update_imports.py: which run of main this is

vars == <<start_path, rootKind, fs, pc, stack, cur, fidx, output_lines, found_files, visited,
          output_text, outfile, fopen, console, content, log, run>>

----
(* Bounds of the model *)

MaxDepth == 3   \* components of the longest path below the start path
MaxNodes == 4   \* entries of the filesystem below the start path

----
(* Tokens *)

Sep == "/"
IndentGlyph == "|   "   \* stands for the box-drawing indent glyph of lines 21 and 28
BranchGlyph == "|-- "   \* stands for the box-drawing branch glyph of lines 21 and 28
TargetPath == <<"/tmp/x">>   \* tree.py: sys.argv[1]
NameOrder == <<"a.txt", "b.txt", "sub">>
Names == {NameOrder[i] : i \in DOMAIN NameOrder}
Kinds == {"file", "dir", "link", "noperm"}
RootKinds == {"missing", "file", "dir", "noperm"}

----
(* The filesystem *)

Parent(p) == SubSeq(p, 1, Len(p) - 1)

Range(s) == {s[i] : i \in DOMAIN s}

\* Position of a path in the length-major order of the paths over the names of
\* `order`: a parent comes before its children.
RECURSIVE Rank(_, _)
Rank(order, p) ==
    IF p = <<>> THEN 0
    ELSE Rank(order, Parent(p)) * (Len(order) + 1)
            + (CHOOSE i \in DOMAIN order : order[i] = p[Len(p)])

\* One more entry, of any kind, directly below the start path or below a real
\* directory, and later in the order than the entries there are (so that every
\* filesystem is built once). Nothing is recorded below a symlink or below a
\* directory that cannot be listed: the scripts never look there.
Grow(order, depth, f) ==
    LET below == {<<n>> : n \in Range(order)}
                   \cup {Append(q, n) : q \in {d \in DOMAIN f : f[d] = "dir" /\ Len(d) < depth},
                                        n \in Range(order)}
        later == {p \in below : \A q \in DOMAIN f : Rank(order, q) < Rank(order, p)}
    IN {f @@ (p :> k) : p \in later, k \in Kinds}

\* the filesystems of at most n entries
RECURSIVE FsUpTo(_, _, _)
FsUpTo(order, depth, n) ==
    IF n = 0 THEN {<<>>}
    ELSE LET S == FsUpTo(order, depth, n - 1)
         IN S \cup UNION {Grow(order, depth, f) : f \in S}

\* components of a walked path below the start path
Comps(path) == [i \in 1..((Len(path) - Len(start_path)) \div 2) |-> path[Len(start_path) + 2 * i]]

KindOf(path) == IF path = start_path THEN rootKind ELSE fs[Comps(path)]

Exists(path) == KindOf(path) # "missing"

IsDir(path) == KindOf(path) \in {"dir", "link", "noperm"}

IsLink(path) == KindOf(path) = "link"

\* scandir(top) raises OSError unless top is a directory that can be listed
CanScan(path) == KindOf(path) = "dir"

Join(root, name) == root \o <<Sep, name>>

Entries(top) == {p[Len(p)] : p \in {q \in DOMAIN fs : Parent(q) = Comps(top)}}

Orders(S) == {s \in [1..Cardinality(S) -> S] : \A i, j \in 1..Cardinality(S) : i # j => s[i] # s[j]}

Reverse(s) == [i \in 1..Len(s) |-> s[Len(s) + 1 - i]]

\* ToPush with the last subdirectory forgotten
ToPushSkipsLast(top, dirs) ==
    LET keep == SelectSeq(dirs, LAMBDA d : ~IsLink(Join(top, d)))
    IN Reverse([i \in 1..(Len(keep) - 1) |-> Join(top, keep[i])])

\* os.walk: the directories pushed once the caller is done with a yield
ToPush(top, dirs) ==
    LET keep == SelectSeq(dirs, LAMBDA d : ~IsLink(Join(top, d)))
    IN Reverse([i \in 1..Len(keep) |-> Join(top, keep[i])])

\* PushDirs with the subdirectories queued behind the directories already waiting
PushDirsQueued(stk, top, dirs) ==
    LET keep == SelectSeq(dirs, LAMBDA d : ~IsLink(Join(top, d)))
    IN [i \in 1..Len(keep) |-> Join(top, keep[Len(keep) + 1 - i])] \o stk

PushDirs(stk, top, dirs) == stk \o ToPush(top, dirs)

----
(* tree.py: rendering *)

Repeat(tok, n) == [i \in 1..n |-> tok]

Count(s, tok) == Cardinality({i \in DOMAIN s : s[i] = tok})

\* os.path.relpath(root, start_path) for a root that os.walk produced from start_path
RelPath(root) == IF root = start_path THEN <<".">> ELSE SubSeq(root, Len(start_path) + 2, Len(root))

Basename(path) == path[Len(path)]

\* the start path is absolute and normalized
Abspath(path) == path

HeaderLine == <<"Scanning directory tree from: ">> \o Abspath(start_path) \o <<"\n">>

RootMarker == <<".", Sep>>

DirIndentLevel(relative_root) == Count(relative_root, Sep)

FileIndentLevel(relative_root) == Count(relative_root, Sep) + 1

DirLine(root) ==
    Repeat(IndentGlyph, DirIndentLevel(RelPath(root))) \o <<BranchGlyph, Basename(root), Sep>>

\* EntryLine without the test for the start directory
EntryLineNoMarker(root) ==
    Repeat(IndentGlyph, DirIndentLevel(RelPath(root))) \o <<BranchGlyph, Basename(root), Sep>>

EntryLine(root) == IF RelPath(root) = <<".">> THEN RootMarker ELSE DirLine(root)

FileLine(root, file_name) ==
    Repeat(IndentGlyph, FileIndentLevel(RelPath(root))) \o <<BranchGlyph, file_name>>

\* AppendFound inserting at the front
AppendFoundFront(found, path) == <<path>> \o found

\* line 25
AppendFound(found, path) == Append(found, path)

\* ErrorText without the path
ErrorTextNoPath == <<"Error: The specified path does not exist: '">> \o <<"'\n">>

ErrorText == <<"Error: The specified path does not exist: '">> \o start_path \o <<"'\n">>

SummaryHeader == <<"\n--- Summary: All Files Found (Full Paths) ---">>

CountLine(n) == <<"\nTotal files found: ", ToString(n)>>

NoFilesLine == <<"No files found or an error occurred during scanning.">>

SummaryBlock(found) ==
    IF found # <<>> THEN <<SummaryHeader>> \o found \o <<CountLine(Len(found))>>
    ELSE <<NoFilesLine>>

RECURSIVE JoinLines(_)
JoinLines(lines) ==
    IF lines = <<>> THEN <<>>
    ELSE IF Len(lines) = 1 THEN lines[1]
    ELSE lines[1] \o <<"\n">> \o JoinLines(Tail(lines))

NoYield == [root |-> <<>>, dirs |-> <<>>, files |-> <<>>]

NoFile == [state |-> "absent", text |-> <<>>]

Printed(kind, text) == [kind |-> kind, text |-> text]

----
(* tree.py: generate_directory_tree_text *)

TreeOnly == UNCHANGED <<content, log, run>>

\* lines 8-9: the start path does not exist
StartMissing ==
    /\ pc = "start"
    /\ ~Exists(start_path)
    /\ output_text' = ErrorText
    /\ pc' = "returned"
    /\ UNCHANGED <<start_path, rootKind, fs, stack, cur, fidx, output_lines, found_files, visited,
                   outfile, fopen, console>>
    /\ TreeOnly

\* lines 11-14: the header, and os.walk(start_path) starts
StartWalk ==
    /\ pc = "start"
    /\ Exists(start_path)
    /\ output_lines' = <<HeaderLine>>
    /\ found_files' = <<>>
    /\ stack' = <<start_path>>
    /\ pc' = "walk"
    /\ UNCHANGED <<start_path, rootKind, fs, cur, fidx, visited, output_text, outfile, fopen, console>>
    /\ TreeOnly

\* os.walk: scandir(top) raises OSError, onerror is None: the directory is left out
WalkSkip ==
    /\ pc = "walk"
    /\ stack # <<>>
    /\ ~CanScan(stack[Len(stack)])
    /\ stack' = SubSeq(stack, 1, Len(stack) - 1)
    /\ UNCHANGED <<start_path, rootKind, fs, pc, cur, fidx, output_lines, found_files, visited,
                   output_text, outfile, fopen, console>>
    /\ TreeOnly

\* os.walk yields (top, dirs, nondirs) in scandir's order; lines 15-21
WalkYield ==
    /\ pc = "walk"
    /\ stack # <<>>
    /\ LET top == stack[Len(stack)] IN
       /\ CanScan(top)
       /\ \E order \in Orders(Entries(top)) :
            cur' = [root |-> top,
                    dirs |-> SelectSeq(order, LAMBDA n : IsDir(Join(top, n))),
                    files |-> SelectSeq(order, LAMBDA n : ~IsDir(Join(top, n)))]
       /\ output_lines' = Append(output_lines, EntryLine(top))
       /\ visited' = Append(visited, [kind |-> "dir", path |-> top])
    /\ stack' = SubSeq(stack, 1, Len(stack) - 1)
    /\ fidx' = 1
    /\ pc' = "files"
    /\ UNCHANGED <<start_path, rootKind, fs, found_files, output_text, outfile, fopen, console>>
    /\ TreeOnly

\* lines 23-28: one iteration of the loop over files
FileStep ==
    /\ pc = "files"
    /\ fidx <= Len(cur.files)
    /\ LET file_name == cur.files[fidx]
           full_file_path == Join(cur.root, file_name)
       IN /\ found_files' = AppendFound(found_files, full_file_path)
          /\ output_lines' = Append(output_lines, FileLine(cur.root, file_name))
          /\ visited' = Append(visited, [kind |-> "file", path |-> full_file_path])
    /\ fidx' = fidx + 1
    /\ UNCHANGED <<start_path, rootKind, fs, pc, stack, cur, output_text, outfile, fopen, console>>
    /\ TreeOnly

\* the loop over files ends; os.walk resumes and pushes the subdirectories
WalkResume ==
    /\ pc = "files"
    /\ fidx > Len(cur.files)
    /\ stack' = PushDirs(stack, cur.root, cur.dirs)
    /\ pc' = "walk"
    /\ UNCHANGED <<start_path, rootKind, fs, cur, fidx, output_lines, found_files, visited,
                   output_text, outfile, fopen, console>>
    /\ TreeOnly

\* lines 30-38: os.walk is exhausted; the summary and the return
Summarize ==
    /\ pc = "walk"
    /\ stack = <<>>
    /\ output_lines' = output_lines \o SummaryBlock(found_files)
    /\ output_text' = JoinLines(output_lines')
    /\ pc' = "returned"
    /\ UNCHANGED <<start_path, rootKind, fs, stack, cur, fidx, found_files, visited, outfile, fopen, console>>
    /\ TreeOnly

----
(* tree.py: the entry point, lines 50-64 *)

\* line 57: open(output_filename, "w")
MainOpen ==
    /\ pc = "returned"
    /\ \/ /\ outfile' = [state |-> "empty", text |-> <<>>]
          /\ fopen' = TRUE
          /\ pc' = "write"
          /\ UNCHANGED console
       \/ /\ pc' = "except"
          /\ UNCHANGED <<outfile, fopen, console>>
    /\ UNCHANGED <<start_path, rootKind, fs, stack, cur, fidx, output_lines, found_files, visited, output_text>>
    /\ TreeOnly

\* line 58 and the end of the with block: f.write(output_text), then the file is closed
MainWrite ==
    /\ pc = "write"
    /\ fopen' = FALSE
    /\ \/ /\ outfile' = [state |-> "written", text |-> output_text]
          /\ pc' = "confirm"
       \/ /\ pc' = "except"
          /\ UNCHANGED outfile
    /\ UNCHANGED <<start_path, rootKind, fs, stack, cur, fidx, output_lines, found_files, visited,
                   output_text, console>>
    /\ TreeOnly

\* line 59
MainConfirm ==
    /\ pc = "confirm"
    /\ console' = Append(console, Printed("saved", <<"directory_tree_output.txt">>))
    /\ pc' = "exit"
    /\ UNCHANGED <<start_path, rootKind, fs, stack, cur, fidx, output_lines, found_files, visited,
                   output_text, outfile, fopen>>
    /\ TreeOnly

\* ExceptPrints without the fallback print of the report
ExceptPrintsNoReport(text) ==
    <<Printed("error", <<"Error saving output to file: ">>),
      Printed("banner", <<"\n--- Console Output (if file save failed) ---">>)>>

ExceptPrints(text) ==
    <<Printed("error", <<"Error saving output to file: ">>),
      Printed("banner", <<"\n--- Console Output (if file save failed) ---">>),
      Printed("report", text)>>

\* lines 60-64
MainExcept ==
    /\ pc = "except"
    /\ console' = console \o ExceptPrints(output_text)
    /\ pc' = "exit"
    /\ UNCHANGED <<start_path, rootKind, fs, stack, cur, fidx, output_lines, found_files, visited,
                   output_text, outfile, fopen>>
    /\ TreeOnly

----
Init ==
    /\ start_path = TargetPath
    /\ rootKind \in RootKinds
    /\ fs \in FsUpTo(NameOrder, MaxDepth, MaxNodes)
    /\ rootKind # "dir" => fs = <<>>
    /\ pc = "start"
    /\ stack = <<>>
    /\ cur = NoYield
    /\ fidx = 1
    /\ output_lines = <<>>
    /\ found_files = <<>>
    /\ visited = <<>>
    /\ output_text = <<>>
    /\ outfile = NoFile
    /\ fopen = FALSE
    /\ console = <<>>
    /\ content = <<>>
    /\ log = <<>>
    /\ run = 1

Next ==
    \/ StartMissing
    \/ StartWalk
    \/ WalkSkip
    \/ WalkYield
    \/ FileStep
    \/ WalkResume
    \/ Summarize
    \/ MainOpen
    \/ MainWrite
    \/ MainConfirm
    \/ MainExcept

Spec == Init /\ [][Next]_vars

----
(* update_imports.py *)

ImpMaxDepth == 2   \* components of the longest path below ROOT_DIR
ImpMaxNodes == 2   \* entries of the filesystem below ROOT_DIR
MaxChunks == 2     \* pieces of text in the .js files, all files together

ROOT_DIR == <<"src">>

ImpNameOrder == <<"m.js", "n.js", "lib">>

\* file.endswith('.js'), over the names of ImpNameOrder
EndsWithJs(file) == file \in {"m.js", "n.js"}

Str_from == <<"f", "r", "o", "m", " ", "'">>
Str_require == <<"r", "e", "q", "u", "i", "r", "e", "(", "'">>

\* PATTERNS with replacements that still hold the text they replace
PATTERNS_Rematching ==
    << [old_path |-> Str_from \o <<"@", "/">>, new_path |-> Str_from \o <<"@", "/", "#">>],
       [old_path |-> Str_require \o <<"@", "/">>, new_path |-> Str_require \o <<"@", "/", "#">>] >>

\* the regular expressions of PATTERNS match these literal texts
PATTERNS ==
    << [old_path |-> Str_from \o <<"@", "/">>, new_path |-> Str_from \o <<"#", "@", "/">>],
       [old_path |-> Str_require \o <<"@", "/">>, new_path |-> Str_require \o <<"#", "@", "/">>] >>

\* re.sub(old, new, s) for a literal pattern: the non-overlapping matches, leftmost first
RECURSIVE ReSub(_, _, _)
ReSub(old, new, s) ==
    IF Len(s) < Len(old) THEN s
    ELSE IF SubSeq(s, 1, Len(old)) = old
         THEN new \o ReSub(old, new, SubSeq(s, Len(old) + 1, Len(s)))
         ELSE <<s[1]>> \o ReSub(old, new, Tail(s))

\* lines 25-28
RECURSIVE ApplyFrom(_, _)
ApplyFrom(i, s) ==
    IF i > Len(PATTERNS) THEN s
    ELSE ApplyFrom(i + 1, ReSub(PATTERNS[i].old_path, PATTERNS[i].new_path, s))

ApplyPatterns(s) == ApplyFrom(1, s)

\* what can go wrong in one call: nothing, the read, the open for writing, the write
Failures == {"none", "read", "open", "write"}

\* UpdateImports without the try/except: the exception leaves the call
UpdateImportsNoCatch(file_path, old, fail) ==
    LET new_content == ApplyPatterns(old) IN
    IF fail = "read"
    THEN [content |-> old, wrote |-> FALSE, outcome |-> "readerr", raised |-> TRUE,
          prints |-> <<>>]
    ELSE IF new_content = old
    THEN [content |-> old, wrote |-> FALSE, outcome |-> "nochange", raised |-> FALSE,
          prints |-> <<Printed("nochange", file_path)>>]
    ELSE IF fail = "open"
    THEN [content |-> old, wrote |-> FALSE, outcome |-> "writeerr", raised |-> TRUE,
          prints |-> <<Printed("updating", file_path)>>]
    ELSE IF fail = "write"
    THEN [content |-> <<>>, wrote |-> TRUE, outcome |-> "writeerr", raised |-> TRUE,
          prints |-> <<Printed("updating", file_path)>>]
    ELSE [content |-> new_content, wrote |-> TRUE, outcome |-> "updated", raised |-> FALSE,
          prints |-> <<Printed("updating", file_path)>>]

\* lines 19-38: what one call does to the file, what it prints, and whether an
\* exception leaves it (except Exception catches every I/O and decoding error)
UpdateImports(file_path, old, fail) ==
    LET new_content == ApplyPatterns(old) IN
    IF fail = "read"
    THEN [content |-> old, wrote |-> FALSE, outcome |-> "readerr", raised |-> FALSE,
          prints |-> <<Printed("error", file_path)>>]
    ELSE IF new_content = old
    THEN [content |-> old, wrote |-> FALSE, outcome |-> "nochange", raised |-> FALSE,
          prints |-> <<Printed("nochange", file_path)>>]
    ELSE IF fail = "open"
    THEN [content |-> old, wrote |-> FALSE, outcome |-> "writeerr", raised |-> FALSE,
          prints |-> <<Printed("updating", file_path), Printed("error", file_path)>>]
    ELSE IF fail = "write"
    THEN [content |-> <<>>, wrote |-> TRUE, outcome |-> "writeerr", raised |-> FALSE,
          prints |-> <<Printed("updating", file_path), Printed("error", file_path)>>]
    ELSE [content |-> new_content, wrote |-> TRUE, outcome |-> "updated", raised |-> FALSE,
          prints |-> <<Printed("updating", file_path)>>]

ImpOnly == UNCHANGED <<output_lines, found_files, visited, output_text, outfile, fopen>>

\* lines 42-44: ROOT_DIR is not a directory
MainNoDir ==
    /\ pc = "main"
    /\ ~IsDir(ROOT_DIR)
    /\ console' = Append(console, Printed("nodir", ROOT_DIR))
    /\ pc' = "done"
    /\ UNCHANGED <<start_path, rootKind, fs, stack, cur, fidx, content, log, run>>
    /\ ImpOnly

\* line 46: os.walk(ROOT_DIR) starts
MainWalk ==
    /\ pc = "main"
    /\ IsDir(ROOT_DIR)
    /\ stack' = <<ROOT_DIR>>
    /\ pc' = "iwalk"
    /\ UNCHANGED <<start_path, rootKind, fs, cur, fidx, console, content, log, run>>
    /\ ImpOnly

\* os.walk: scandir(top) raises OSError, onerror is None: the directory is left out
ImpWalkSkip ==
    /\ pc = "iwalk"
    /\ stack # <<>>
    /\ ~CanScan(stack[Len(stack)])
    /\ stack' = SubSeq(stack, 1, Len(stack) - 1)
    /\ UNCHANGED <<start_path, rootKind, fs, pc, cur, fidx, console, content, log, run>>
    /\ ImpOnly

\* os.walk yields (top, dirs, nondirs) in scandir's order
ImpWalkYield ==
    /\ pc = "iwalk"
    /\ stack # <<>>
    /\ LET top == stack[Len(stack)] IN
       /\ CanScan(top)
       /\ \E order \in Orders(Entries(top)) :
            cur' = [root |-> top,
                    dirs |-> SelectSeq(order, LAMBDA n : IsDir(Join(top, n))),
                    files |-> SelectSeq(order, LAMBDA n : ~IsDir(Join(top, n)))]
    /\ stack' = SubSeq(stack, 1, Len(stack) - 1)
    /\ fidx' = 1
    /\ pc' = "ifiles"
    /\ UNCHANGED <<start_path, rootKind, fs, console, content, log, run>>
    /\ ImpOnly

\* lines 47-50: one iteration of the loop over files, a call of update_imports
ImpFileStep ==
    /\ pc = "ifiles"
    /\ fidx <= Len(cur.files)
    /\ LET file == cur.files[fidx]
           file_path == Join(cur.root, file)
       IN IF EndsWithJs(file)
          THEN \E fail \in Failures :
                  LET r == UpdateImports(file_path, content[file_path], fail) IN
                  /\ content' = [content EXCEPT ![file_path] = r.content]
                  /\ console' = console \o r.prints
                  /\ log' = Append(log, [path |-> file_path, run |-> run, outcome |-> r.outcome,
                                         wrote |-> r.wrote, before |-> content[file_path],
                                         after |-> r.content])
                  /\ pc' = IF r.raised THEN "crashed" ELSE pc
          ELSE UNCHANGED <<content, console, log, pc>>
    /\ fidx' = fidx + 1
    /\ UNCHANGED <<start_path, rootKind, fs, stack, cur, run>>
    /\ ImpOnly

\* the loop over files ends; os.walk resumes and pushes the subdirectories
ImpWalkResume ==
    /\ pc = "ifiles"
    /\ fidx > Len(cur.files)
    /\ stack' = PushDirs(stack, cur.root, cur.dirs)
    /\ pc' = "iwalk"
    /\ UNCHANGED <<start_path, rootKind, fs, cur, fidx, console, content, log, run>>
    /\ ImpOnly

\* line 52: os.walk is exhausted
MainCompleted ==
    /\ pc = "iwalk"
    /\ stack = <<>>
    /\ console' = Append(console, Printed("completed", <<>>))
    /\ pc' = "done"
    /\ UNCHANGED <<start_path, rootKind, fs, stack, cur, fidx, content, log, run>>
    /\ ImpOnly

\* the script is run a second time, on the files the first run left
RunAgain ==
    /\ pc = "done"
    /\ run = 1
    /\ run' = 2
    /\ pc' = "main"
    /\ UNCHANGED <<start_path, rootKind, fs, stack, cur, fidx, console, content, log>>
    /\ ImpOnly

\* the pieces the .js files are made of
Chunks == {Str_from, Str_require, <<"@", "/">>, <<"#">>}

\* the texts of exactly n pieces
RECURSIVE Texts(_)
Texts(n) == IF n = 0 THEN {<<>>} ELSE {t \o c : t \in Texts(n - 1), c \in Chunks}

\* the contents of the given files, of at most `budget` pieces together
RECURSIVE Contents(_, _)
Contents(files, budget) ==
    IF files = {} THEN {<<>>}
    ELSE LET f == CHOOSE x \in files : TRUE
         IN UNION {{(f :> t) @@ rest : t \in Texts(k), rest \in Contents(files \ {f}, budget - k)}
                     : k \in 0..budget}

RECURSIVE PathFrom(_, _)
PathFrom(start, comps) ==
    IF comps = <<>> THEN start ELSE Join(PathFrom(start, Parent(comps)), comps[Len(comps)])

JsFiles(f) == {PathFrom(ROOT_DIR, c) : c \in {d \in DOMAIN f : f[d] = "file" /\ EndsWithJs(d[Len(d)])}}

InitImports ==
    /\ start_path = ROOT_DIR
    /\ rootKind \in RootKinds
    /\ fs \in FsUpTo(ImpNameOrder, ImpMaxDepth, ImpMaxNodes)
    /\ rootKind # "dir" => fs = <<>>
    /\ content \in Contents(JsFiles(fs), MaxChunks)
    /\ pc = "main"
    /\ stack = <<>>
    /\ cur = NoYield
    /\ fidx = 1
    /\ output_lines = <<>>
    /\ found_files = <<>>
    /\ visited = <<>>
    /\ output_text = <<>>
    /\ outfile = NoFile
    /\ fopen = FALSE
    /\ console = <<>>
    /\ log = <<>>
    /\ run = 1

NextImports ==
    \/ MainNoDir
    \/ MainWalk
    \/ ImpWalkSkip
    \/ ImpWalkYield
    \/ ImpFileStep
    \/ ImpWalkResume
    \/ MainCompleted
    \/ RunAgain

SpecImports == InitImports /\ [][NextImports]_vars

----
(* Properties of tree.py *)

\* number of components of a walked path below the start path: its relative depth
Depth(path) == Len(Comps(path))

IsBelow(dir, path) == Len(path) > Len(dir) /\ SubSeq(path, 1, Len(dir)) = dir

DirOf(path) == SubSeq(path, 1, Len(path) - 2)

\* the tree line rendered for the i-th visit (the header is line 1)
LineOf(i) == output_lines[i + 1]

IsFileLine(l) == Len(l) >= 2 /\ l[Len(l) - 1] = BranchGlyph

IsDirLine(l) == Len(l) >= 3 /\ l[Len(l) - 2] = BranchGlyph /\ l[Len(l)] = Sep

Returned == pc \in {"returned", "write", "confirm", "except", "exit"}

VisitsOf(kind, path) == {i \in DOMAIN visited : visited[i] = [kind |-> kind, path |-> path]}

FsPaths == {PathFrom(start_path, c) : c \in DOMAIN fs}

\* C1: a file directly in a directory at relative depth d is rendered with exactly
\* d+1 indent glyphs (3 for root/sub/deep/file.txt).
C1_FileIndentIsDepthPlusOne ==
    \A i \in DOMAIN visited :
        visited[i].kind = "file" =>
            Count(LineOf(i), IndentGlyph) = Depth(DirOf(visited[i].path)) + 1

\* C2: every directory other than the root is rendered with exactly depth indent
\* glyphs, depth being 1 for the children of the root, 2 for the grandchildren,
\* followed by the branch glyph, the base name and a separator.
C2_DirIndentIsDepth ==
    \A i \in DOMAIN visited :
        (visited[i].kind = "dir" /\ visited[i].path # start_path) =>
            LineOf(i) = Repeat(IndentGlyph, Depth(visited[i].path))
                            \o <<BranchGlyph, Basename(visited[i].path), Sep>>

C4_MissingRoot ==
    (Returned /\ rootKind = "missing") =>
        /\ output_text = <<"Error: The specified path does not exist: '", "/tmp/x", "'\n">>
        /\ found_files = <<>>
        /\ output_lines = <<>>

C4_Witness == pc = "returned" /\ rootKind = "missing" /\ output_text # <<>>

FileLines == SelectSeq(output_lines, IsFileLine)

FilesVisited == SelectSeq(visited, LAMBDA v : v.kind = "file")

Home(v) == IF v.kind = "file" THEN DirOf(v.path) ELSE v.path

InSubtree(dir, path) == path = dir \/ IsBelow(dir, path)

ExampleFs == (<<"a.txt">> :> "file") @@ (<<"sub">> :> "dir") @@ (<<"sub", "b.txt">> :> "file")

\* C6: the traversal is depth-first pre-order: a directory's line precedes the
\* lines of its files, the files of a directory precede every line of its
\* subdirectories, and the lines of a subtree are contiguous; for /tmp/x holding
\* a.txt and sub/b.txt the file list is [/tmp/x/a.txt, /tmp/x/sub/b.txt] and the
\* summary count is 2.
C6_DepthFirstPreOrder ==
    /\ \A j \in DOMAIN visited :
          visited[j].kind = "file" =>
              \E i \in 1..(j - 1) : visited[i] = [kind |-> "dir", path |-> DirOf(visited[j].path)]
    /\ \A i, j \in DOMAIN visited :
          (visited[i].kind = "file" /\ IsBelow(DirOf(visited[i].path), Home(visited[j]))) => i < j
    /\ \A i, j, k \in DOMAIN visited :
          (i < j /\ j < k /\ visited[i].kind = "dir"
             /\ InSubtree(visited[i].path, Home(visited[k]))) =>
                 InSubtree(visited[i].path, Home(visited[j]))
    /\ (Returned /\ rootKind = "dir" /\ fs = ExampleFs) =>
          /\ found_files = << <<"/tmp/x", "/", "a.txt">>, <<"/tmp/x", "/", "sub", "/", "b.txt">> >>
          /\ output_lines[Len(output_lines)] = <<"\nTotal files found: ", "2">>

C6_Witness ==
    /\ Returned
    /\ \E i, j, k \in DOMAIN visited :
          /\ i < j /\ j < k
          /\ visited[i].kind = "dir" /\ visited[j].kind = "dir" /\ visited[k].kind = "dir"
          /\ IsBelow(visited[i].path, visited[j].path)
          /\ ~InSubtree(visited[i].path, visited[k].path)
          /\ visited[k].path # start_path

C6_ExampleWitness == Returned /\ rootKind = "dir" /\ fs = ExampleFs

\* C7: the entry point ends in exactly one of two console outcomes: the report was
\* written and only the confirmation naming the output file is printed; or the
\* open or the write failed and the error message and then the full report text
\* are printed; the script ends normally either way, with the file handle closed.
C7_SavedOrFallback ==
    pc = "exit" =>
        /\ ~fopen
        /\ \/ /\ outfile = [state |-> "written", text |-> output_text]
              /\ console = <<[kind |-> "saved", text |-> <<"directory_tree_output.txt">>]>>
           \/ /\ outfile.state # "written"
              /\ Len(console) = 3
              /\ console[1].kind = "error"
              /\ console[3] = [kind |-> "report", text |-> output_text]
              /\ \A i \in 1..2 : console[i].kind # "saved"

C7_Witness ==
    /\ pc = "exit"
    /\ outfile.state = "empty"
    /\ Len(console) = 3
    /\ found_files # <<>>

\* C9 as stated: for every existing start path, a regular file included, the
\* report starts with the header line followed by exactly one root marker line.
C9_MarkerForEveryExistingRoot ==
    (Returned /\ rootKind \in {"dir", "file"}) =>
        /\ Len(output_lines) >= 2
        /\ output_lines[1] = HeaderLine
        /\ output_lines[2] = <<".", "/">>
        /\ Cardinality({i \in DOMAIN output_lines : output_lines[i] = <<".", "/">>}) = 1

IsPrefix(s, t) == Len(s) <= Len(t) /\ SubSeq(t, 1, Len(s)) = s

\* C9 amended: when the start path is a directory whose listing succeeds, the
\* report starts with the header line followed by exactly one root marker line;
\* when the start path exists but cannot be listed (a regular file, an unreadable
\* directory) the report is the header line and the "No files found" line, with no
\* root marker.
C9_MarkerForListableRoot ==
    /\ (Returned /\ rootKind = "dir") =>
          /\ Len(output_lines) >= 2
          /\ output_lines[1] = <<"Scanning directory tree from: ", "/tmp/x", "\n">>
          /\ output_lines[2] = <<".", "/">>
          /\ Cardinality({i \in DOMAIN output_lines : output_lines[i] = <<".", "/">>}) = 1
          /\ IsPrefix(<<"Scanning directory tree from: ", "/tmp/x", "\n", "\n", ".", "/", "\n">>,
                      output_text)
    /\ (Returned /\ rootKind \in {"file", "noperm"}) =>
          /\ output_lines = << <<"Scanning directory tree from: ", "/tmp/x", "\n">>,
                               <<"No files found or an error occurred during scanning.">> >>
          /\ output_text = JoinLines(output_lines)

C9_Witness ==
    /\ Returned
    /\ rootKind = "dir"
    /\ \E p \in FsPaths : KindOf(p) = "dir"
    /\ Len(output_lines) > 3

C9_FileRootWitness == Returned /\ rootKind = "file"

----
(* Properties of update_imports.py *)

JsPaths == JsFiles(fs)

CallsOf(p, r) == {i \in DOMAIN log : log[i].path = p /\ log[i].run = r}

PrintsOf(kind, p) == {i \in DOMAIN console : console[i] = [kind |-> kind, text |-> p]}

Failed(e) == e.outcome \in {"readerr", "writeerr"}

NextCall(i) ==
    {j \in DOMAIN log : /\ j > i
                        /\ log[j].path = log[i].path
                        /\ \A k \in (i + 1)..(j - 1) : log[k].path # log[i].path}

\* C10: once update_imports has run without error on a file, the next call on
\* that file finds the content the first call left, matches no pattern, does not
\* open the file for writing and leaves its content as it is ("No changes needed",
\* unless the read itself fails); so a second run of main changes no file.
C10_SecondRunChangesNothing ==
    \A i \in DOMAIN log :
        ~Failed(log[i]) =>
            /\ ApplyPatterns(log[i].after) = log[i].after
            /\ \A j \in NextCall(i) :
                  /\ log[j].before = log[i].after
                  /\ ~log[j].wrote
                  /\ log[j].after = log[j].before
                  /\ log[j].outcome \in {"nochange", "readerr"}
                  /\ content[log[j].path] = log[i].after

C10_Witness ==
    /\ pc = "done"
    /\ \E i, j \in DOMAIN log :
          /\ j \in NextCall(i)
          /\ log[i].outcome = "updated"
          /\ log[j].outcome = "nochange"
          /\ Cardinality(PrintsOf("nochange", log[j].path)) = 1

====
